---- MODULE Spec2Model ----
(***************************************************************************)
(* Model of the scraper core of liberty-dev:                               *)
(*   apps/scraper/scraper_core/base_scraper.py      BaseScraper            *)
(*   apps/scraper/scraper_core/async_http_client.py AsyncHTTPClient        *)
(*   apps/scraper/scraper_core/exceptions.py        exception classes      *)
(* One behaviour of Spec is one call of BaseScraper.scrape_products(urls).  *)
(* The browser (Playwright), the site and the parser are the environment:  *)
(* every result they can hand back to the code is chosen with \E.          *)
(*                                                                         *)
(* The functions the scraper is built from have specifications of their    *)
(* own, each over its own variable (the other variables stay "unused"):    *)
(*   RetrySpec    shared/utils/retry.py                  with_retry        *)
(*   ModelSpec    scraper_core/models.py                 price_range       *)
(*   ParseSpec    scrapers/farfetch/scraper.py           parse_product     *)
(*   MouseSpec    scraper_core/mouse_movement_generator.py                 *)
(*                                                       generate_movement *)
(*   ExecSpec     scraper_core/async_http_client.py      move_mouse_to     *)
(*   SelectSpec   scrapers/farfetch/html_parser.py       _extract_<field>  *)
(* DirectSpec is Spec together with scrape_product calls made outside a    *)
(* batch; StoreSpec is the products table under concurrent requests of     *)
(* apps/api/catalog/router.py and                                          *)
(* apps/saver/consumers/scraper_consumer.py.                               *)
(***************************************************************************)
EXTENDS Integers, Sequences, FiniteSets, TLC

\* ------------------------------------------------------------------ bounds
MaxUrls == 3
MaxRetries == 3

\* ------------------------------------------------------------- input sets
\* URLs of the batch: what validate_url looks at is the site of the URL.
Urls == {"https://www.farfetch.com/shopping/item-1.aspx",
         "https://example.org/item-1"}

FarfetchUrls == {"https://www.farfetch.com/shopping/item-1.aspx"}

\* config.retry_delay values (seconds) the model runs with
RetryDelays == {1, 2}

\* random.uniform(0, 2), in whole seconds
Jitters == 0..2

\* response.status values of the target navigation
Statuses == {200, 403, 404, 500}

\* Optional[int] = None of HTTPError.status_code
NoStatus == 0

\* no asyncio.sleep(delay) between two attempts
NoWait == -1

RECURSIVE Pow2(_)
Pow2(n) == IF n = 0 THEN 1 ELSE 2 * Pow2(n - 1)

RECURSIVE SeqsUpTo(_, _)
SeqsUpTo(S, n) ==
    IF n = 0 THEN {<<>>}
    ELSE LET shorter == SeqsUpTo(S, n - 1)
         IN shorter \cup {Append(s, x) : s \in {t \in shorter : Len(t) = n - 1}, x \in S}

\* ------------------------------------------------------------------ state
VARIABLES
    urls,              \* argument of scrape_products
    max_retries,       \* config.max_retries
    retry_delay,       \* config.retry_delay
    pc,                \* position of scrape_products
    i,                 \* loop variable of "for i, url in enumerate(urls, 1)"
    products,          \* the list "products": positions of the URLs that gave a product
    http_client,       \* BaseScraper.http_client is not None
    context,           \* AsyncHTTPClient.context is not None
    browser,           \* AsyncHTTPClient.browser is not None
    playwright,        \* AsyncHTTPClient.playwright is not None
    live,              \* browser-side resources launched and not yet released
    attempt,           \* loop variable of "for attempt in range(max_retries)"
    attempts_started,  \* attempts begun by the current get(url) call
    last,              \* what the latest attempt of the current get(url) did
    err,               \* exception that ended the latest call (get or scrape_products)
    outcome,           \* per URL position: how its scrape_product call ended
    sleeps,            \* number of asyncio.sleep(2) inter-item delays done
    starts,            \* number of AsyncHTTPClient.start() calls made
    direct,            \* a scrape_product call made outside scrape_products
    retry,             \* one call of a function wrapped by with_retry
    base_product,      \* a BaseProduct and the last price_range read from it
    html,              \* the markup handed to FarfetchScraper.parse_product
    parsed,            \* what parse_product returned for it
    movement,          \* one call of MouseMovementGenerator.generate_movement
    execution,         \* one call of AsyncHTTPClient.move_mouse_to executing a plan
    selected,          \* one call of HTMLParser.extract_additional_info
    store              \* the products table and the requests working on it

scraperVars == <<urls, max_retries, retry_delay, pc, i, products, http_client, context,
                 browser, playwright, live, attempt, attempts_started, last, err,
                 outcome, sleeps, starts, direct>>

\* the variables of the function specifications
libVars == <<retry, base_product, html, parsed, movement, execution, selected, store>>

vars == <<scraperVars, libVars>>

\* value of a variable in the specifications that do not use it
Unused == "unused"

\* ------------------------------------------------------------- exceptions
\* exceptions.py: ScraperError(message, url=None); HTTPError adds status_code=None
NoUrl == "None"

NoError == [type |-> "none", url |-> NoUrl, status_code |-> NoStatus]

HTTPError(status_code, url) ==
    [type |-> "HTTPError", url |-> url, status_code |-> status_code]

ScraperTimeoutError(url) ==
    [type |-> "TimeoutError", url |-> url, status_code |-> NoStatus]

URLValidationError(url) ==
    [type |-> "URLValidationError", url |-> url, status_code |-> NoStatus]

ParsingError(url) ==
    [type |-> "ParsingError", url |-> url, status_code |-> NoStatus]

\* base_scraper.py, lines 41-44: the built-in RuntimeError
RuntimeError == [type |-> "RuntimeError", url |-> NoUrl, status_code |-> NoStatus]

\* exceptions of the environment, raised inside the try block of get()
AsyncioTimeoutError == [type |-> "asyncio.TimeoutError", url |-> NoUrl, status_code |-> NoStatus]

PlaywrightTimeoutError == [type |-> "playwright.TimeoutError", url |-> NoUrl, status_code |-> NoStatus]

PlaywrightError == [type |-> "playwright.Error", url |-> NoUrl, status_code |-> NoStatus]

CancelledError == [type |-> "CancelledError", url |-> NoUrl, status_code |-> NoStatus]

\* ------------------------------------------------------ BaseScraper parts
\* a check any URL passes: "http" in url
validate_url_any(url) == url \in Urls

\* FarfetchScraper.validate_url: "farfetch.com" in url
validate_url(url) == url \in FarfetchUrls

\* ------------------------------------------------- AsyncHTTPClient.start
\* Where start() fails: "driver" = async_playwright().start() raises,
\* "browser" = proxy parsing or chromium.launch raises, "context" =
\* browser.new_context raises.  What has been launched before the failure
\* stays launched; the attributes assigned before it stay assigned.
StartFailures == {"none", "driver", "browser", "context"}

StartLaunched(failAt) ==
    CASE failAt = "driver"  -> {}
      [] failAt = "browser" -> {"driver"}
      [] failAt = "context" -> {"driver", "browser"}
      [] OTHER              -> {"driver", "browser", "context"}

\* start() failing at failAt ("none": it succeeds): what it assigns and launches
Start(failAt) ==
    /\ starts' = starts + 1
    /\ live' = live \cup StartLaunched(failAt)
    /\ playwright' = (playwright \/ failAt # "driver")
    /\ browser' = (browser \/ failAt \notin {"driver", "browser"})
    /\ context' = (context \/ failAt = "none")

\* get() starting a session on every call
NeedsStartAlways(ctx) == TRUE

\* get(), lines 120-121: if not self.context: await self.start()
NeedsStart(ctx) == ~ctx

\* ------------------------------------------------- AsyncHTTPClient.close
\* Each of the three close calls is tried on its own; a call that raises is
\* logged and the next one still runs.  Closing the browser ends its
\* contexts, stopping the driver ends the browser it launched.
CloseReleased(ctxOk, brOk, pwOk) ==
    (IF context /\ ctxOk THEN {"context"} ELSE {})
      \cup (IF browser /\ brOk THEN {"context", "browser"} ELSE {})
      \cup (IF playwright /\ pwOk THEN {"context", "browser", "driver"} ELSE {})


\* what AsyncHTTPClient.close leaves: the three attributes are cleared in the
\* finally block whatever the close calls did
CloseBatch(endpc, e) ==
    \E ctxOk \in BOOLEAN, brOk \in BOOLEAN, pwOk \in BOOLEAN :
        /\ live' = live \ CloseReleased(ctxOk, brOk, pwOk)
        /\ context' = FALSE
        /\ browser' = FALSE
        /\ playwright' = FALSE
        /\ pc' = endpc
        /\ err' = e

\* --------------------------------------------------- AsyncHTTPClient.get
\* One run of the try block of an attempt, as the browser decides it:
\*   status = NoStatus, exc # NoError : a call up to page.goto(url) raised exc
\*   status = NoStatus, exc = NoError : page.goto(url) returned no response
\*   status in Statuses, exc = NoError: page.goto(url) returned that status and
\*                                      no later browser call raised
\*   status < 400,       exc # NoError: a call after the status check raised
\*                                      (wait_for_load_state, page.content,
\*                                      page.close)
\*   sim = "none"  : the behaviour simulation of line 220 was not reached
\*   sim in SimRuns: it was reached and ran that way; exc is then what the
\*                   calls after it (page.content, page.close) raised; they
\*                   take no timeout
BrowserExceptions == {AsyncioTimeoutError, PlaywrightTimeoutError, PlaywrightError}

\* One run of _simulate_human_behavior_on_page, as the page decides it: every
\* pointer move and scroll works, a pointer move of a plan raises and the
\* direct move of the handler works, that direct move raises too, or a
\* scroll raises.
SimRuns == {"ok", "move_raises", "move_and_fallback_raise", "scroll_raises"}

\* lines 315-360: the exception that leaves move_mouse_to.  The try block
\* catches what the plan's moves raise; the handler issues one direct move
\* (line 359), and what that move raises is not caught here.
move_mouse_to(sim) ==
    IF sim = "move_and_fallback_raise" THEN PlaywrightError ELSE NoError

\* lines 401-442: the whole body of scroll_with_mouse_movement is inside
\* try/except Exception, nothing leaves it
scroll_with_mouse_movement(sim) == NoError

\* the simulation without its try/except: what a movement raises leaves it
simulate_human_behavior_uncaught(sim) ==
    IF move_mouse_to(sim) # NoError THEN move_mouse_to(sim)
    ELSE scroll_with_mouse_movement(sim)

\* lines 444-507: the exception that leaves
\* _simulate_human_behavior_on_page; the loop of movements is inside
\* try/except Exception, which logs a warning
simulate_human_behavior_on_page(sim) ==
    LET e == IF move_mouse_to(sim) # NoError THEN move_mouse_to(sim)
             ELSE scroll_with_mouse_movement(sim)
    IN IF e.type # "CancelledError" THEN NoError ELSE e

AttemptRuns ==
    {[status |-> NoStatus, exc |-> e, sim |-> "none"] : e \in BrowserExceptions \cup {NoError}}
      \cup {[status |-> s, exc |-> NoError, sim |-> "none"] : s \in {t \in Statuses : t >= 400}}
      \cup {[status |-> s, exc |-> e, sim |-> "none"] :
                s \in {t \in Statuses : t < 400}, e \in BrowserExceptions}
      \cup {[status |-> s, exc |-> e, sim |-> m] :
                s \in {t \in Statuses : t < 400},
                e \in {PlaywrightError, NoError},
                m \in SimRuns}

\* outcome of _try_alternative_strategy (lines 509-545), whose own try/except
\* swallows every error: page.goto(url) returned a response with a status
\* below 400 ("renavigated"), returned an error status again ("blocked"),
\* or a call raised ("failed").  The response is not kept.
AltOutcomes == {"renavigated", "blocked", "failed"}

\* page.content(): empty or not
Contents == {"", "<html>"}

\* The record of the latest attempt of get(): its number, the status of the
\* target navigation, the exception its try block raised, the outcome of the
\* 403 fallback, the backoff slept, whether a movement of the simulation
\* raised, whether page.content() was called, what get() returned ("no":
\* nothing so far, "content", "None"), and the page the attempt opened
\* ("none": it opened none, "closed", "open").
NoAttempt == [n |-> -1, status |-> NoStatus, raised |-> NoError, alt |-> "none",
              wait |-> NoWait, sim_error |-> FALSE, captured |-> FALSE,
              returned |-> "no", page |-> "none"]

\* the status check passing the client errors: response.status >= 500
IsErrorStatusServerOnly(status) == status >= 500

\* line 196: if response.status >= 400
IsErrorStatus(status) == status >= 400

\* line 223 is reached: the calls up to the simulation passed and the
\* simulation returned
Captured(run) ==
    run.sim # "none" /\ simulate_human_behavior_on_page(run.sim) = NoError

\* a pointer move or a scroll of the simulation raised
SimError(run) == run.sim \notin {"none", "ok"}

\* the loop bound off by one: range(max_retries + 1)
InRangeInclusive(a, n) == a <= n

\* for attempt in range(self.config.max_retries)
InRange(a, n) == a < n

\* the 403 branch without the "- 1": the fallback also on the last attempt
AltStrategyAlways(a, n) == a < n

\* line 199: if attempt < self.config.max_retries - 1 (403 branch)
AltStrategyAllowed(a, n) == a < n - 1

\* the handlers without the "- 1": a backoff also after the last attempt
RetryLeftAlways(a, n) == a < n

\* lines 243 and 252: if attempt < self.config.max_retries - 1 (handlers)
RetryLeft(a, n) == a < n - 1

\* the exponent counted from 1: retry_delay * (2**(attempt + 1))
BackoffDelayFromOne(d, a, jitter) == d * Pow2(a + 1) + jitter

\* lines 244 and 253: retry_delay * (2**attempt) + random.uniform(0, 2)
BackoffDelay(d, a, jitter) == d * Pow2(a) + jitter

\* the exception the try block of an attempt raises, NoError if it returns
\* content or goes on to the next attempt through the 403 branch
RaisedInTry(run, a, n, url) ==
    IF run.status = NoStatus
    THEN IF run.exc # NoError THEN run.exc ELSE HTTPError(NoStatus, url)
    ELSE IF IsErrorStatus(run.status)
         THEN IF run.status = 403 /\ AltStrategyAllowed(a, n)
              THEN NoError
              ELSE HTTPError(run.status, url)
    ELSE IF run.sim # "none" /\ simulate_human_behavior_on_page(run.sim) # NoError
         THEN simulate_human_behavior_on_page(run.sim)
    ELSE run.exc

\* The page of an attempt that ends in one of the except clauses (lines
\* 241-257), which close nothing: the page of line 128 stays open.  A run
\* that raised before the navigation returned may have failed in new_page()
\* itself, and then no page was opened.
PageAfterError(run) ==
    IF run.status = NoStatus /\ run.exc # NoError
    THEN {"none", "open"}
    ELSE {"open"}

\* the two except clauses on the last attempt: what get() raises
FinalError(e, url) ==
    IF e.type = "asyncio.TimeoutError"
    THEN ScraperTimeoutError(url)
    ELSE HTTPError(NoStatus, url)

\* ------------------------------------------- BaseScraper.scrape_products
\* the loop catching only the fetch error: "except HTTPError"
CaughtHTTPOnly(e) == e.type = "HTTPError"

\* "except Exception" of the URL loop: CancelledError is a BaseException
Caught(e) == e.type # "CancelledError"

\* the append without the "if product" test
CollectAlways(ps, product, pos) == Append(ps, pos)

\* the product put at the head of the list: products.insert(0, product)
CollectFront(ps, product, pos) ==
    IF product = "product" THEN <<pos>> \o ps ELSE ps

\* lines 78-82: if product: products.append(product)
Collect(ps, product, pos) ==
    IF product = "product" THEN Append(ps, pos) ELSE ps

ParseResults == {"product", "none", "raises"}

\* the delay after every URL, the last one included
InterItemDelaysAlways(count, pos, n) == count + 1

\* base_scraper.py, lines 86-89: if i < len(urls): await asyncio.sleep(2)
InterItemDelays(count, pos, n) == IF pos < n THEN count + 1 ELSE count

\* no scrape_product call has been made outside scrape_products
NoCall == [called |-> FALSE, url |-> NoUrl, after_batch |-> FALSE,
           raised |-> NoError, launched |-> FALSE, result |-> "none"]

\* base_scraper.py, line 41: "if not self.http_client" is false.  The
\* attribute is assigned in scrape_products (line 71) and nothing assigns it
\* afterwards, so it keeps the client of the ended batch.
HasClient(client) == client

Init ==
    /\ urls \in SeqsUpTo(Urls, MaxUrls)
    /\ max_retries \in 0..MaxRetries
    /\ retry_delay \in RetryDelays
    /\ pc = "idle"
    /\ i = 0
    /\ products = <<>>
    /\ http_client = FALSE
    /\ context = FALSE
    /\ browser = FALSE
    /\ playwright = FALSE
    /\ live = {}
    /\ attempt = 0
    /\ attempts_started = 0
    /\ last = NoAttempt
    /\ err = NoError
    /\ outcome = [j \in 1..Len(urls) |-> "pending"]
    /\ sleeps = 0
    /\ starts = 0
    /\ direct = NoCall
    /\ retry = Unused
    /\ base_product = Unused
    /\ html = Unused
    /\ parsed = Unused
    /\ movement = Unused
    /\ execution = Unused
    /\ selected = Unused
    /\ store = Unused

\* the URL loop without its try/except: the exception ends the batch
RaiseInLoopAbort(e) ==
    /\ CloseBatch("raised", e)
    /\ UNCHANGED outcome

\* an exception e leaves scrape_product(urls[i]) inside the loop's try
RaiseInLoop(e) ==
    IF Caught(e)
    THEN /\ pc' = "item_done"
         /\ err' = e
         /\ outcome' = [outcome EXCEPT ![i] = "failed"]
         /\ UNCHANGED <<context, browser, playwright, live>>
    ELSE /\ CloseBatch("raised", e)
         /\ UNCHANGED outcome

\* scrape_product(urls[i]) returns product ("product" or "none") to the loop
ReturnToLoop(product) ==
    /\ pc' = "item_done"
    /\ products' = Collect(products, product, i)
    /\ outcome' = [outcome EXCEPT ![i] = product]

\* scrape_products up to the first loop iteration: empty list, or
\* "async with AsyncHTTPClient(self.config)" calling start()
ScrapeProducts ==
    /\ pc = "idle"
    /\ IF urls = <<>>
       THEN /\ pc' = "returned"
            /\ UNCHANGED <<i, http_client, context, browser, playwright, live, err, starts>>
       ELSE \E failAt \in StartFailures :
            /\ Start(failAt)
            /\ IF failAt = "none"
               THEN /\ http_client' = TRUE
                    /\ i' = 1
                    /\ pc' = "validate"
                    /\ UNCHANGED err
               ELSE /\ pc' = "raised"
                    /\ err' = HTTPError(NoStatus, NoUrl)
                    /\ UNCHANGED <<i, http_client>>
    /\ UNCHANGED <<urls, max_retries, retry_delay, products, attempt,
                   attempts_started, last, outcome, sleeps, direct>>
    /\ UNCHANGED libVars

\* scrape_product(urls[i]) up to the call of http_client.get(url)
ScrapeProduct ==
    /\ pc = "validate"
    /\ last' = NoAttempt
    /\ attempt' = 0
    /\ attempts_started' = 0
    /\ IF ~validate_url(urls[i])
       THEN /\ RaiseInLoop(URLValidationError(urls[i]))
            /\ UNCHANGED starts
       ELSE IF ~HasClient(http_client)
       THEN /\ RaiseInLoop(RuntimeError)
            /\ UNCHANGED starts
       ELSE IF NeedsStart(context)
       THEN \* get() starts a session itself; a failure of start() leaves get()
            \* as HTTPError, which the URL loop catches
            \E failAt \in StartFailures :
            /\ Start(failAt)
            /\ IF failAt = "none"
               THEN /\ pc' = "get"
                    /\ err' = NoError
                    /\ UNCHANGED outcome
               ELSE /\ pc' = "item_done"
                    /\ err' = HTTPError(NoStatus, NoUrl)
                    /\ outcome' = [outcome EXCEPT ![i] = "failed"]
       ELSE /\ pc' = "get"
            /\ err' = NoError
            /\ UNCHANGED <<context, browser, playwright, live, outcome, starts>>
    /\ UNCHANGED <<urls, max_retries, retry_delay, i, products, http_client, sleeps, direct>>
    /\ UNCHANGED libVars

\* one iteration of the retry loop of get(urls[i]), handlers included
Attempt ==
    /\ pc = "get"
    /\ InRange(attempt, max_retries)
    /\ attempts_started' = attempts_started + 1
    /\ \E run \in AttemptRuns :
       LET url == urls[i]
           e == RaisedInTry(run, attempt, max_retries, url)
       IN IF run.exc = NoError /\ run.status = 403 /\ AltStrategyAllowed(attempt, max_retries)
          THEN \* _try_alternative_strategy, then continue
               \E alt \in AltOutcomes :
               /\ last' = [n |-> attempt, status |-> run.status, raised |-> NoError,
                           alt |-> alt, wait |-> NoWait, sim_error |-> FALSE,
                           captured |-> FALSE, returned |-> "no", page |-> "open"]
               /\ attempt' = attempt + 1
               /\ UNCHANGED <<pc, err, outcome, products, context, browser, playwright, live>>
          ELSE IF e = NoError
          THEN \* return content; scrape_product: if not html: return None
               \* (page.close() of line 234 has closed the page of the attempt)
               \E content \in Contents :
               /\ last' = [n |-> attempt, status |-> run.status, raised |-> NoError,
                           alt |-> "none", wait |-> NoWait, sim_error |-> SimError(run),
                           captured |-> Captured(run), returned |-> "content",
                           page |-> "closed"]
               /\ IF content = ""
                  THEN ReturnToLoop("none")
                  ELSE /\ pc' = "parse"
                       /\ UNCHANGED <<outcome, products>>
               /\ UNCHANGED <<attempt, err, context, browser, playwright, live>>
          ELSE IF RetryLeft(attempt, max_retries)
          THEN \* either handler: sleep, next attempt
               \E jitter \in Jitters, page \in PageAfterError(run) :
               /\ last' = [n |-> attempt, status |-> run.status, raised |-> e,
                           alt |-> "none", wait |-> BackoffDelay(retry_delay, attempt, jitter),
                           sim_error |-> SimError(run), captured |-> Captured(run),
                           returned |-> "no", page |-> page]
               /\ attempt' = attempt + 1
               /\ UNCHANGED <<pc, err, outcome, products, context, browser, playwright, live>>
          ELSE \* either handler on the last attempt: raise
               \E page \in PageAfterError(run) :
               /\ last' = [n |-> attempt, status |-> run.status, raised |-> e,
                           alt |-> "none", wait |-> NoWait,
                           sim_error |-> SimError(run), captured |-> Captured(run),
                           returned |-> "no", page |-> page]
               /\ RaiseInLoop(FinalError(e, url))
               /\ UNCHANGED <<attempt, products>>
    /\ UNCHANGED <<urls, max_retries, retry_delay, i, http_client, sleeps, starts, direct>>
    /\ UNCHANGED libVars

\* the retry loop ends without a return: get() returns None (line 259),
\* scrape_product returns None
GetExhausted ==
    /\ pc = "get"
    /\ ~InRange(attempt, max_retries)
    /\ last' = [last EXCEPT !.returned = "None"]
    /\ ReturnToLoop("none")
    /\ UNCHANGED <<urls, max_retries, retry_delay, i, http_client, context, browser,
                   playwright, live, attempt, attempts_started, err, sleeps, starts,
                   direct>>
    /\ UNCHANGED libVars

\* scrape_product from parse_product on
ParseProduct ==
    /\ pc = "parse"
    /\ \E r \in ParseResults :
       IF r = "raises"
       THEN /\ RaiseInLoop(ParsingError(urls[i]))
            /\ UNCHANGED products
       ELSE /\ ReturnToLoop(r)
            /\ UNCHANGED <<err, context, browser, playwright, live>>
    /\ UNCHANGED <<urls, max_retries, retry_delay, i, http_client, attempt,
                   attempts_started, last, sleeps, starts, direct>>
    /\ UNCHANGED libVars

\* end of a loop iteration: the inter-item sleep, or the end of the
\* "async with" block (__aexit__ -> close) and the return
NextItem ==
    /\ pc = "item_done"
    /\ sleeps' = InterItemDelays(sleeps, i, Len(urls))
    /\ IF i < Len(urls)
       THEN /\ i' = i + 1
            /\ pc' = "validate"
            /\ UNCHANGED <<context, browser, playwright, live, err>>
       ELSE /\ CloseBatch("returned", err)
            /\ UNCHANGED i
    /\ UNCHANGED <<urls, max_retries, retry_delay, products, http_client, attempt,
                   attempts_started, last, outcome, starts, direct>>
    /\ UNCHANGED libVars

\* the task is cancelled while the loop awaits get() or the inter-item sleep
Cancel ==
    /\ \/ pc = "get"
       \/ pc = "item_done" /\ i < Len(urls)
    /\ RaiseInLoop(CancelledError)
    /\ UNCHANGED <<urls, max_retries, retry_delay, i, products, http_client, attempt,
                   attempts_started, last, sleeps, starts, direct>>
    /\ UNCHANGED libVars

Next ==
    \/ ScrapeProducts
    \/ ScrapeProduct
    \/ Attempt
    \/ GetExhausted
    \/ ParseProduct
    \/ NextItem
    \/ Cancel

Spec == Init /\ [][Next]_vars

\* every await of the batch is bounded (page timeouts, finite sleeps), so a
\* started batch keeps taking steps until it returns or raises
FairSpec == Spec /\ WF_vars(Next)

\* How the retry loop of get(url) ends for a scrape_product call made
\* outside a batch, after "failed" attempts that did not return content:
\* the loop of Attempt and GetExhausted taken in one step.
DirectGetResults(failed, url) ==
    IF failed < max_retries
    THEN {[raised |-> NoError, result |-> "product"],
          [raised |-> NoError, result |-> "none"],
          [raised |-> ParsingError(url), result |-> "none"]}
    ELSE IF max_retries = 0
    THEN {[raised |-> NoError, result |-> "none"]}
    ELSE {[raised |-> ScraperTimeoutError(url), result |-> "none"],
          [raised |-> HTTPError(NoStatus, url), result |-> "none"]}

\* scrape_product(url) called by the user of the scraper while
\* scrape_products is not running (base_scraper.py, lines 34-59): the URL
\* check, the session check, then get(url), which starts a session of its
\* own when the client has no context (async_http_client.py, lines 120-121)
\* and which nothing closes afterwards.
StandaloneScrapeProduct ==
    /\ pc \in {"idle", "returned", "raised"}
    /\ ~direct.called
    /\ \E url \in Urls :
       LET call == [NoCall EXCEPT !.called = TRUE, !.url = url,
                                  !.after_batch = (pc # "idle")]
       IN IF ~validate_url(url)
          THEN /\ direct' = [call EXCEPT !.raised = URLValidationError(url)]
               /\ UNCHANGED <<context, browser, playwright, live, starts>>
          ELSE IF ~HasClient(http_client)
          THEN /\ direct' = [call EXCEPT !.raised = RuntimeError]
               /\ UNCHANGED <<context, browser, playwright, live, starts>>
          ELSE \E failAt \in (IF NeedsStart(context) THEN StartFailures ELSE {"kept"}) :
               /\ IF failAt = "kept"
                  THEN UNCHANGED <<context, browser, playwright, live, starts>>
                  ELSE Start(failAt)
               /\ IF failAt \in {"kept", "none"}
                  THEN \E failed \in 0..max_retries :
                       \E r \in DirectGetResults(failed, url) :
                          direct' = [call EXCEPT
                                        !.raised = r.raised,
                                        !.result = r.result,
                                        !.launched = (failAt = "none")]
                  ELSE direct' = [call EXCEPT
                                     !.raised = HTTPError(NoStatus, NoUrl),
                                     !.launched = ("browser" \in StartLaunched(failAt))]
    /\ UNCHANGED <<urls, max_retries, retry_delay, pc, i, products, http_client, attempt,
                   attempts_started, last, err, outcome, sleeps>>
    /\ UNCHANGED libVars

DirectNext ==
    \/ Next
    \/ StandaloneScrapeProduct

\* the batch together with scrape_product calls made outside it
DirectSpec == Init /\ [][DirectNext]_vars

\* the scraper before any call, as the function specifications leave it
ScraperIdle ==
    /\ urls = <<>>
    /\ max_retries = 0
    /\ retry_delay = 1
    /\ pc = "idle"
    /\ i = 0
    /\ products = <<>>
    /\ http_client = FALSE
    /\ context = FALSE
    /\ browser = FALSE
    /\ playwright = FALSE
    /\ live = {}
    /\ attempt = 0
    /\ attempts_started = 0
    /\ last = NoAttempt
    /\ err = NoError
    /\ outcome = <<>>
    /\ sleeps = 0
    /\ starts = 0
    /\ direct = NoCall

\* ------------------------------------------------ shared/utils/retry.py
\* with_retry(max_attempts, wait_multiplier, wait_max=60.0,
\* retry_exceptions=Exception) wraps func in tenacity's retry(stop=
\* stop_after_attempt, wait=wait_exponential, retry=retry_if_exception_type);
\* the sync and the async wrapper pass the same arguments.
MaxAttempts == 4

WaitMultipliers == {1, 2}

\* wait_max: float = 60.0
WaitMax == 60

\* what one call of the wrapped function does
FuncResults == {"success", "done"}

FuncExceptions == {"ValueError", "KeyboardInterrupt"}

\* retry_exceptions = Exception: KeyboardInterrupt is a BaseException
RetryIfExceptionType(e) == e # "KeyboardInterrupt"

\* stop_after_attempt(max_attempts + 1)
StopAfterAttemptPlusOne(attempt_number, n) == attempt_number > n

\* stop=stop_after_attempt(max_attempts): stop once attempt_number >= max_attempts
StopAfterAttempt(attempt_number, n) == attempt_number >= n

\* wait=wait_exponential(multiplier=wait_multiplier, max=wait_max):
\* multiplier * 2^(attempt_number - 1), at most max
WaitExponential(attempt_number, multiplier, wmax) ==
    IF multiplier * Pow2(attempt_number - 1) < wmax
    THEN multiplier * Pow2(attempt_number - 1)
    ELSE wmax

RetryInit ==
    /\ ScraperIdle
    /\ execution = Unused
    /\ selected = Unused
    /\ store = Unused
    /\ base_product = Unused
    /\ html = Unused
    /\ parsed = Unused
    /\ movement = Unused
    /\ \E n \in 1..MaxAttempts, m \in WaitMultipliers, a \in BOOLEAN :
          retry = [max_attempts |-> n, wait_multiplier |-> m, is_async |-> a,
                   state |-> "calling", calls |-> 0, fails |-> 0,
                   waited |-> 0, result |-> "None", exc |-> "None"]

\* _retry_func() is called once more and succeeds: the wrapper returns
RetryCallReturns ==
    /\ retry.state = "calling"
    /\ \E r \in FuncResults :
          retry' = [retry EXCEPT !.calls = @ + 1, !.state = "returned", !.result = r]
    /\ UNCHANGED <<scraperVars, base_product, html, parsed, movement, execution, selected, store>>

\* _retry_func() is called once more and raises: the exception is passed on
\* when it is not of a retried type, RetryError is raised when the stop
\* condition holds, and otherwise the wrapper sleeps and goes round again
RetryCallRaises ==
    /\ retry.state = "calling"
    /\ \E e \in FuncExceptions :
          LET n == retry.calls + 1
          IN IF ~RetryIfExceptionType(e)
             THEN retry' = [retry EXCEPT !.calls = n, !.fails = @ + 1,
                                         !.state = "raised", !.exc = e]
             ELSE IF StopAfterAttempt(n, retry.max_attempts)
             THEN retry' = [retry EXCEPT !.calls = n, !.fails = @ + 1,
                                         !.state = "raised", !.exc = "RetryError"]
             ELSE retry' = [retry EXCEPT !.calls = n, !.fails = @ + 1,
                                         !.waited = WaitExponential(n, retry.wait_multiplier, WaitMax)]
    /\ UNCHANGED <<scraperVars, base_product, html, parsed, movement, execution, selected, store>>

RetryNext ==
    \/ RetryCallReturns
    \/ RetryCallRaises

RetrySpec == RetryInit /\ [][RetryNext]_vars

\* ------------------------------------------- scraper_core/models.py
\* A JSON value as the models and the parsers see it: a number, a string
\* that is not a number, None, or (for a dict lookup) an absent key.
Num(n) == [kind |-> "num", v |-> n]

NonNumeric == [kind |-> "str", v |-> 0]

None == [kind |-> "None", v |-> 0]

Absent == [kind |-> "absent", v |-> 0]

\* dict.get("price", default)
DictGet(d, default) == IF d = Absent THEN default ELSE d

\* bool(value): None, 0 and 0.0 are falsy
TruthyNotNone(p) == p # None

Truthy(p) == p # None /\ p # Num(0)

\* BaseOffer.price: price_specification[0].get("price"), None without a
\* specification
OfferPrice(price_specification) ==
    IF price_specification # <<>>
    THEN DictGet(price_specification[1], None)
    ELSE None

SeqMin(q) == CHOOSE x \in {q[k].v : k \in 1..Len(q)} :
                 \A y \in {q[k].v : k \in 1..Len(q)} : x <= y

SeqMax(q) == CHOOSE x \in {q[k].v : k \in 1..Len(q)} :
                 \A y \in {q[k].v : k \in 1..Len(q)} : x >= y

\* BaseProduct.price_range over the variants' price specifications
price_range(variants) ==
    LET all == [k \in 1..Len(variants) |-> OfferPrice(variants[k])]
        prices == SelectSeq(all, Truthy)
    IN IF prices = <<>>
       THEN <<None, None>>
       ELSE <<Num(SeqMin(prices)), Num(SeqMax(prices))>>

MaxVariants == 3

\* price specifications of the variants of a product: none, one without a
\* price, and prices the price check admits
PriceSpecifications ==
    {<<>>, <<Absent>>, <<Num(0)>>, <<Num(190)>>, <<Num(250)>>, <<Num(10000)>>}

ModelInit ==
    /\ ScraperIdle
    /\ execution = Unused
    /\ selected = Unused
    /\ store = Unused
    /\ retry = Unused
    /\ html = Unused
    /\ parsed = Unused
    /\ movement = Unused
    /\ \E vs \in SeqsUpTo(PriceSpecifications, MaxVariants) :
          base_product = [variants |-> vs, read |-> FALSE, price_range |-> <<None, None>>]

\* product.price_range is read
ReadPriceRange ==
    /\ ~base_product.read
    /\ base_product' = [base_product EXCEPT !.read = TRUE,
                                             !.price_range = price_range(base_product.variants)]
    /\ UNCHANGED <<scraperVars, retry, html, parsed, movement, execution, selected, store>>

ModelNext == ReadPriceRange

ModelSpec == ModelInit /\ [][ModelNext]_vars

\* ------------------------------- scraper_core/utils.py, scrapers/farfetch
\* clean_text: surrounding and repeated whitespace is dropped, so a text of
\* blanks becomes the empty text
clean_text(text) == IF text \in {"", " "} THEN "" ELSE text

\* validate_price: a number from 0 to 10000
validate_price(price) == price.kind = "num" /\ 0 <= price.v /\ price.v <= 10000

\* validate_product_data: name, brand and description are present and
\* truthy; brand is a dict, truthy whenever it has a key
validate_product_data(data) ==
    /\ data.name # ""
    /\ data.brand # Absent
    /\ data.description # ""

JSONLDNotFoundError == [type |-> "JSONLDNotFoundError"]

\* extract_json_ld_from_html: the first ld+json script whose JSON has
\* @type ProductGroup; scripts that do not parse or have another type are
\* passed over
extract_json_ld_from_html(scripts) ==
    LET found == {k \in 1..Len(scripts) : scripts[k].type = "ProductGroup"}
    IN IF found = {}
       THEN JSONLDNotFoundError
       ELSE scripts[CHOOSE k \in found : \A l \in found : k <= l]

\* FarfetchScraper._extract_json_data: None when extraction or validation
\* raises
NoJson == [type |-> "None"]

extract_json_data(scripts) ==
    LET json_data == extract_json_ld_from_html(scripts)
    IN IF json_data.type # "ProductGroup" THEN NoJson
       ELSE IF ~validate_product_data(json_data) THEN NoJson
       ELSE json_data

Range(q) == {q[k] : k \in 1..Len(q)}

\* FarfetchHTMLParser._extract_text_by_selectors: the text of the first
\* selector whose element has text
RECURSIVE extract_text_by_selectors(_)
extract_text_by_selectors(texts) ==
    IF texts = <<>> THEN ""
    ELSE IF Head(texts) # "" THEN Head(texts)
    ELSE extract_text_by_selectors(Tail(texts))

\* the loops of _extract_images and _extract_sizes without the membership
\* test
RECURSIVE collect_nonempty(_, _)
collect_nonempty(elements, acc) ==
    IF elements = <<>> THEN acc
    ELSE collect_nonempty(Tail(elements),
                          IF Head(elements) # ""
                          THEN Append(acc, Head(elements)) ELSE acc)

\* the loops of _extract_images and _extract_sizes: every non-empty text not
\* collected yet is appended
RECURSIVE collect_new(_, _)
collect_new(elements, acc) ==
    IF elements = <<>> THEN acc
    ELSE collect_new(Tail(elements),
                     IF Head(elements) # "" /\ Head(elements) \notin Range(acc)
                     THEN Append(acc, Head(elements)) ELSE acc)

\* images[:10]
MaxImages == 10

\* _extract_images without the membership test
extract_images_repeated(srcs) ==
    LET images == collect_nonempty(srcs, <<>>)
    IN SubSeq(images, 1, IF Len(images) < MaxImages THEN Len(images) ELSE MaxImages)

extract_images(srcs) ==
    LET images == collect_new(srcs, <<>>)
    IN SubSeq(images, 1, IF Len(images) < MaxImages THEN Len(images) ELSE MaxImages)

extract_sizes_repeated(elements) == collect_nonempty(elements, <<>>)

extract_sizes(elements) == collect_new(elements, <<>>)

\* FarfetchHTMLParser.extract_additional_info
extract_additional_info(h) ==
    [title |-> extract_text_by_selectors(h.title),
     brand |-> extract_text_by_selectors(h.brand),
     images |-> extract_images(h.img_srcs),
     sizes |-> extract_sizes(h.size_elements),
     description |-> extract_text_by_selectors(h.description)]

\* json_data.get("brand", {}).get("name", "")
BrandName(json_data) == IF json_data.brand = Absent THEN "" ELSE json_data.brand.name

\* FarfetchScraper._extract_brand
extract_brand(json_data, additional_info) ==
    IF json_data.type = "ProductGroup"
    THEN BrandName(json_data)
    ELSE additional_info.brand

\* FarfetchScraper._is_target_brand
is_target_brand(target_brands, json_data, additional_info) ==
    \/ target_brands = {}
    \/ extract_brand(json_data, additional_info) = ""
    \/ extract_brand(json_data, additional_info) \in target_brands

\* FarfetchJSONParser._parse_product_variants: an entry is skipped when it
\* has no price specification or validate_price rejects
\* price_spec[0].get("price", 0)
RECURSIVE parse_product_variants(_)
parse_product_variants(hasVariant) ==
    IF hasVariant = <<>> THEN <<>>
    ELSE LET price_spec == Head(hasVariant).priceSpecification
             rest == parse_product_variants(Tail(hasVariant))
         IN IF price_spec = <<>> \/ ~validate_price(DictGet(price_spec[1], Num(0)))
            THEN rest
            ELSE <<[sku |-> <<Head(hasVariant).sku>>, size |-> "", image |-> "",
                    price_specification |-> price_spec]>> \o rest

\* FarfetchJSONParser._extract_product_data and _create_product_from_json
create_product_from_json(json_data, additional_info) ==
    [name |-> IF clean_text(json_data.name) # ""
              THEN clean_text(json_data.name) ELSE additional_info.title,
     brand |-> IF BrandName(json_data) # ""
               THEN BrandName(json_data) ELSE additional_info.brand,
     description |-> IF clean_text(json_data.description) # ""
                     THEN clean_text(json_data.description)
                     ELSE additional_info.description,
     images |-> json_data.image,
     variants |-> parse_product_variants(json_data.hasVariant)]

\* the variant _create_product_from_html builds for one size ("default" for
\* the product without sizes)
HtmlVariant(sku, size, html_images) ==
    [sku |-> <<"html", sku>>, size |-> size,
     image |-> IF html_images # <<>> THEN html_images[1] ELSE "",
     price_specification |-> <<Num(0)>>]

\* FarfetchJSONParser._create_product_from_html
create_product_from_html(additional_info) ==
    LET sizes == additional_info.sizes
        variants == [k \in 1..Len(sizes) |->
                        HtmlVariant(sizes[k], sizes[k], additional_info.images)]
    IN [name |-> additional_info.title,
        brand |-> additional_info.brand,
        description |-> additional_info.description,
        images |-> additional_info.images,
        variants |-> IF variants = <<>>
                     THEN <<HtmlVariant("default", "", additional_info.images)>>
                     ELSE variants]

\* FarfetchJSONParser._has_valid_json_data, on json_data or {}
has_valid_json_data(json_data) == json_data.type = "ProductGroup"

\* FarfetchJSONParser.parse_product
json_parser_parse_product(json_data, additional_info) ==
    IF ~has_valid_json_data(json_data)
    THEN create_product_from_html(additional_info)
    ELSE create_product_from_json(json_data, additional_info)

NoProduct == [name |-> "None", brand |-> "None", description |-> "None",
              images |-> <<>>, variants |-> <<>>]

\* FarfetchScraper.parse_product
parse_product(h) ==
    LET additional_info == extract_additional_info(h)
        json_data == extract_json_data(h.scripts)
    IN IF ~is_target_brand(h.target_brands, json_data, additional_info)
       THEN NoProduct
       ELSE json_parser_parse_product(json_data, additional_info)

\* ---- the markup parse_product is given
\* a script that is not JSON, and one of another @type
InvalidScript == [type |-> "invalid"]

OtherScript == [type |-> "Product"]

\* the entries of hasVariant, by their offers.priceSpecification
VariantEntries ==
    {[sku |-> "SKU", priceSpecification |-> ps] :
        ps \in {<<>>, <<Absent>>, <<None>>, <<NonNumeric>>, <<Num(-1)>>, <<Num(0)>>,
                <<Num(190)>>, <<Num(10000)>>, <<Num(10001)>>}}

ValidEntry == [sku |-> "SKU", priceSpecification |-> <<Num(190)>>]

ProductGroup(name, brand, description, hasVariant) ==
    [type |-> "ProductGroup", name |-> name, brand |-> brand,
     description |-> description, image |-> <<"ld.jpg">>, hasVariant |-> hasVariant]

Brand(name) == [kind |-> "dict", v |-> 0, name |-> name]

Brands == {Absent} \cup {Brand(n) : n \in {"", "Nike", "Gucci"}}

ProductGroups ==
    {ProductGroup(n, b, d, hv) :
        n \in {"", " ", "Air Max"}, b \in Brands, d \in {"", "ld description"},
        hv \in {<<>>, <<ValidEntry>>}}

ScriptLists ==
    {<<>>, <<InvalidScript>>, <<OtherScript>>}
        \cup {<<pg>> : pg \in ProductGroups}
        \cup {<<OtherScript, pg>> : pg \in {g \in ProductGroups : g.hasVariant = <<>>}}

MaxElements == 2

MaxHasVariant == 2

TargetBrands == {{}, {"Nike"}}

ParseInit ==
    /\ ScraperIdle
    /\ execution = Unused
    /\ selected = Unused
    /\ store = Unused
    /\ retry = Unused
    /\ base_product = Unused
    /\ movement = Unused
    /\ parsed = [called |-> FALSE]
    /\ \/ \E sc \in ScriptLists,
             t \in {<<>>, <<"", "Title">>},
             b \in {<<"">>, <<"Gucci">>, <<"", "Nike">>},
             d \in {<<>>, <<"description">>},
             im \in {<<>>, <<"a.jpg">>, <<"b.jpg", "b.jpg", "a.jpg">>},
             sz \in SeqsUpTo({"", "S", "M"}, MaxElements),
             tb \in TargetBrands :
            html = [scripts |-> sc, title |-> t, brand |-> b, description |-> d,
                    img_srcs |-> im, size_elements |-> sz, target_brands |-> tb]
       \/ \E hv \in SeqsUpTo(VariantEntries, MaxHasVariant) :
            html = [scripts |-> <<ProductGroup("Air Max", Brand("Nike"), "ld description", hv)>>,
                    title |-> <<"Title">>, brand |-> <<"Nike">>,
                    description |-> <<"description">>, img_srcs |-> <<"a.jpg">>,
                    size_elements |-> <<"S">>, target_brands |-> {"Nike"}]

\* FarfetchScraper.parse_product(html, url) is called
ParseProductCall ==
    /\ ~parsed.called
    /\ parsed' = [called |-> TRUE,
                  json_ld |-> extract_json_ld_from_html(html.scripts).type,
                  json_data |-> extract_json_data(html.scripts).type,
                  additional_info |-> extract_additional_info(html),
                  product |-> parse_product(html)]
    /\ UNCHANGED <<scraperVars, retry, base_product, html, movement, execution, selected, store>>

ParseNext == ParseProductCall

ParseSpec == ParseInit /\ [][ParseNext]_vars

\* --------------------------- scraper_core/mouse_movement_generator.py
\* default_params, and steps_per_100px as _adapt_for_mobile changes it
DurationRangeMs == {400, 1200}

PauseDurationRangeMs == {30, 260}

HoverAfterMs == {80, 420}

steps_per_100px(device) == IF device = "mobile" THEN (IF 8 > 12 - 4 THEN 8 ELSE 12 - 4) ELSE 12

\* random.randint(-5, 10)
StepVariations == {-5, 10}

\* the pointer positions of the calls; they lie on one line of slope 4/3,
\* so that every distance is a whole number of pixels
Points == {<<0, 0>>, <<60, 80>>, <<720, 960>>}

Devices == {"desktop", "mobile"}

MaxPauses == 1

\* math.sqrt((end[0] - start[0]) ** 2 + (end[1] - start[1]) ** 2)
Distance(start, end) ==
    LET d2 == (end[1] - start[1]) * (end[1] - start[1])
              + (end[2] - start[2]) * (end[2] - start[2])
    IN CHOOSE d \in 0..1500 : d * d = d2

\* _calculate_duration: int(base_duration * (1 + min(1.5, distance / 500) * 0.3))
calculate_duration(distance, base_duration) ==
    LET capped == IF distance < 750 THEN distance ELSE 750
    IN (base_duration * (10000 + 6 * capped)) \div 10000

\* _calculate_step_count: min(120, max(20, base_steps + variation))
calculate_step_count(distance, device, variation) ==
    LET scaled == (distance * steps_per_100px(device)) \div 100
        base_steps == IF scaled > 20 THEN scaled ELSE 20
        varied == IF base_steps + variation > 20 THEN base_steps + variation ELSE 20
    IN IF varied < 120 THEN varied ELSE 120

\* _apply_easing("easeInOutQuad") at t = i / (step_count - 1), as a
\* numerator over (step_count - 1)^2
EasedNum(idx, step_count) ==
    LET m == step_count - 1
    IN IF 2 * idx < m THEN 2 * idx * idx
       ELSE 4 * idx * m - 2 * idx * idx - m * m

\* a point of _generate_base_trajectory, before the Gaussian offset of
\* _add_jitter is added to it; coordinates are numerators over
\* (step_count - 1)^2
BasePoint(idx, start, end, step_count) ==
    LET den == (step_count - 1) * (step_count - 1)
    IN [kind |-> "base",
        x |-> start[1] * den + (end[1] - start[1]) * EasedNum(idx, step_count),
        y |-> start[2] * den + (end[2] - start[2]) * EasedNum(idx, step_count)]

\* the point _add_overshoot inserts: overshoot_px beyond the point at
\* overshoot_index, along the last segment before it
OvershootPoint(overshoot_index, start, end, step_count) ==
    [BasePoint(overshoot_index, start, end, step_count) EXCEPT !.kind = "overshoot"]

NoOvershoot == -1

\* int(len(trajectory) * random.uniform(0.8, 0.9))
OvershootIndexes(len) == {(len * 8) \div 10, (len * 9) \div 10}

\* the trajectory list after _add_overshoot: trajectory.insert(overshoot_index + 1, ...)
TrajectoryLen(step_count, overshoot) ==
    IF overshoot = NoOvershoot THEN step_count ELSE step_count + 1

TrajectoryAt(idx, start, end, step_count, overshoot) ==
    IF overshoot = NoOvershoot \/ idx <= overshoot
    THEN BasePoint(idx, start, end, step_count)
    ELSE IF idx = overshoot + 1
    THEN OvershootPoint(overshoot, start, end, step_count)
    ELSE BasePoint(idx - 1, start, end, step_count)

\* int(round(t)) for t = num / den >= 0; round() takes a tie to the even side
Round(num, den) ==
    LET q == num \div den
        r == num % den
    IN IF 2 * r < den THEN q
       ELSE IF 2 * r > den THEN q + 1
       ELSE IF q % 2 = 0 THEN q ELSE q + 1

\* time is counted in units of 1 / (10 * step_count) ms, which makes
\* base_delay = duration / step_count and its multiples whole numbers
TimeUnits(step_count) == 10 * step_count

\* what one pass of the loop of _generate_timings adds to current_time:
\* base_delay + pause_duration, or base_delay * random.uniform(0.8, 1.2)
TimingIncrements(duration, step_count, pauses) ==
    {[pause |-> 0, add |-> duration * 8], [pause |-> 0, add |-> duration * 12]}
        \cup (IF pauses < MaxPauses
              THEN {[pause |-> 1, add |-> duration * 10 + p * TimeUnits(step_count)] :
                        p \in PauseDurationRangeMs}
              ELSE {})

\* current_time = ... instead of current_time += ...
NextTimeReset(current_time, add) == add

\* current_time += ...
NextTime(current_time, add) == current_time + add

NoPoint == [kind |-> "none", x |-> 0, y |-> 0]

MouseInit ==
    /\ ScraperIdle
    /\ execution = Unused
    /\ selected = Unused
    /\ store = Unused
    /\ retry = Unused
    /\ base_product = Unused
    /\ html = Unused
    /\ parsed = Unused
    /\ \E start \in Points, end \in Points, device \in Devices :
          movement = [phase |-> "called", start |-> start, end |-> end, device |-> device,
                      duration |-> 0, step_count |-> 0, overshoot |-> NoOvershoot,
                      i |-> 0, current_time |-> 0, pauses |-> 0, ordered |-> TRUE,
                      first |-> NoPoint, last |-> NoPoint, t_last |-> 0,
                      count |-> 0, hover |-> FALSE]

\* generate_movement up to the call of _generate_timings: duration, step
\* count, base trajectory, jitter and the overshoot draw
PlanTrajectory ==
    /\ movement.phase = "called"
    /\ \E base_duration \in DurationRangeMs, variation \in StepVariations :
          LET distance == Distance(movement.start, movement.end)
              n == calculate_step_count(distance, movement.device, variation)
          IN \E overshoot \in {NoOvershoot} \cup OvershootIndexes(n) :
                movement' = [movement EXCEPT
                                !.phase = "timing",
                                !.duration = calculate_duration(distance, base_duration),
                                !.step_count = n,
                                !.overshoot = overshoot]
    /\ UNCHANGED <<scraperVars, retry, base_product, html, parsed, execution, selected, store>>

\* pass i of the loop of _generate_timings, with the step _create_steps
\* builds from timings[i] and trajectory[i]
TimingStep ==
    /\ movement.phase = "timing"
    /\ movement.i < movement.step_count
    /\ movement.i < TrajectoryLen(movement.step_count, movement.overshoot)
    /\ \E inc \in TimingIncrements(movement.duration, movement.step_count, movement.pauses) :
          LET n == movement.step_count
              t == Round(movement.current_time, TimeUnits(n))
              next_time == NextTime(movement.current_time, inc.add)
              point == TrajectoryAt(movement.i, movement.start, movement.end, n,
                                    movement.overshoot)
          IN movement' = [movement EXCEPT
                             !.i = @ + 1,
                             !.current_time = next_time,
                             !.pauses = @ + inc.pause,
                             !.ordered = @ /\ (movement.i + 1 < n =>
                                                  Round(next_time, TimeUnits(n)) >= t),
                             !.first = IF movement.i = 0 THEN point ELSE @,
                             !.last = point,
                             !.t_last = IF movement.i + 1 = n THEN t ELSE 0,
                             !.count = @ + 1]
    /\ UNCHANGED <<scraperVars, retry, base_product, html, parsed, execution, selected, store>>

\* the steps are built; with probability 0.3 a hover step at the end point
\* is appended, and the plan is returned
ReturnPlan ==
    /\ movement.phase = "timing"
    /\ movement.i = movement.step_count
    /\ \/ movement' = [movement EXCEPT !.phase = "returned"]
       \/ \E hover_duration \in HoverAfterMs :
            movement' = [movement EXCEPT
                            !.phase = "returned",
                            !.hover = TRUE,
                            !.count = @ + 1,
                            !.ordered = @ /\ movement.t_last + hover_duration >= movement.t_last,
                            !.t_last = @ + hover_duration]
    /\ UNCHANGED <<scraperVars, retry, base_product, html, parsed, execution, selected, store>>

MouseNext ==
    \/ PlanTrajectory
    \/ TimingStep
    \/ ReturnPlan

MouseSpec == MouseInit /\ [][MouseNext]_vars

\* ------------------------------------ FarfetchHTMLParser, field by field
\* One call of an extractor of FarfetchHTMLParser (_extract_title, _brand,
\* _description, _images, _sizes) on a page.  The page is given by what each
\* selector of the field's cascade finds, in cascade order: for a text field
\* the text of the element select_one returns ("" when there is none or it
\* has no text), for images and sizes the list of the src values or texts of
\* the elements select returns.
MaxSelectors == 2

MaxMatches == 2

TextFields == {"title", "brand", "description"}

ListFields == {"images", "sizes"}

SelectorTexts == {"", "A", "B"}

TextCascades == [1..MaxSelectors -> SelectorTexts]

ListCascades == [1..MaxSelectors -> SeqsUpTo(SelectorTexts, MaxMatches)]

\* the elements of all the selectors, in the order the two nested loops of
\* _extract_images and _extract_sizes visit them
RECURSIVE Flatten(_)
Flatten(lists) ==
    IF lists = <<>> THEN <<>> ELSE Head(lists) \o Flatten(Tail(lists))

\* html_parser.py, lines 27-109: the extractor of a field on a cascade
extract_field(field, cascade) ==
    IF field \in TextFields THEN extract_text_by_selectors(cascade)
    ELSE IF field = "images" THEN extract_images(Flatten(cascade))
    ELSE extract_sizes(Flatten(cascade))

SelectInit ==
    /\ ScraperIdle
    /\ retry = Unused
    /\ base_product = Unused
    /\ html = Unused
    /\ parsed = Unused
    /\ movement = Unused
    /\ execution = Unused
    /\ store = Unused
    /\ \/ \E field \in TextFields, cascade \in TextCascades :
            selected = [field |-> field, cascade |-> cascade, called |-> FALSE,
                        value |-> ""]
       \/ \E field \in ListFields, cascade \in ListCascades :
            selected = [field |-> field, cascade |-> cascade, called |-> FALSE,
                        value |-> <<>>]

ExtractField ==
    /\ ~selected.called
    /\ selected' = [selected EXCEPT
                       !.called = TRUE,
                       !.value = extract_field(selected.field, selected.cascade)]
    /\ UNCHANGED <<scraperVars, retry, base_product, html, parsed, movement, execution, store>>

SelectNext == ExtractField

SelectSpec == SelectInit /\ [][SelectNext]_vars

\* ---------------------------------------- AsyncHTTPClient.move_mouse_to
\* The plans move_mouse_to executes are those generate_movement returns for
\* a movement of 100 px on a desktop: 20 steps, each pass of
\* _generate_timings adding base_delay * 0.8 or * 1.2 throughout, with at
\* most one pass that pauses instead, and an optional hover step.
PlanDistance == 100

NoPause == -1

PausePasses == {NoPause, 0, 10}

VariationTenths == {8, 12}

\* what pass j of _generate_timings adds, in units of 1 / TimeUnits(n) ms
PlanIncrement(j, duration, n, tenths, pause_pass, pause_duration) ==
    IF j = pause_pass
    THEN duration * 10 + pause_duration * TimeUnits(n)
    ELSE duration * tenths

\* current_time at the start of pass j of _generate_timings
RECURSIVE PlanTime(_, _, _, _, _, _)
PlanTime(j, duration, n, tenths, pause_pass, pause_duration) ==
    IF j = 0 THEN 0
    ELSE NextTime(PlanTime(j - 1, duration, n, tenths, pause_pass, pause_duration),
                  PlanIncrement(j - 1, duration, n, tenths, pause_pass, pause_duration))

\* the "t" of the steps of the plan (_create_steps: int(round(t))), the
\* hover step of generate_movement included when hover_duration > 0
PlanTimestamps(duration, n, tenths, pause_pass, pause_duration, hover_duration) ==
    LET ts == [j \in 1..n |->
                  Round(PlanTime(j - 1, duration, n, tenths, pause_pass, pause_duration),
                        TimeUnits(n))]
    IN IF hover_duration > 0 THEN Append(ts, ts[n] + hover_duration) ELSE ts

\* lines 348-349: if step["t"] > 0: await asyncio.sleep(step["t"] / 1000.0);
\* the time elapsed after the step, in ms
ElapsedAfterStep(elapsed, t) == IF t > 0 THEN elapsed + t ELSE elapsed

ExecInit ==
    /\ ScraperIdle
    /\ retry = Unused
    /\ base_product = Unused
    /\ html = Unused
    /\ parsed = Unused
    /\ movement = Unused
    /\ selected = Unused
    /\ store = Unused
    /\ \E base_duration \in DurationRangeMs, tenths \in VariationTenths,
          pause_pass \in PausePasses, pause_duration \in PauseDurationRangeMs,
          hover_duration \in {0} \cup HoverAfterMs :
          LET n == calculate_step_count(PlanDistance, "desktop", -5)
              duration == calculate_duration(PlanDistance, base_duration)
          IN /\ pause_pass = NoPause => pause_duration = 30
             /\ execution = [phase |-> "moving",
                             timestamps |-> PlanTimestamps(duration, n, tenths, pause_pass,
                                                           pause_duration, hover_duration),
                             k |-> 1, elapsed |-> 0, on_time |-> TRUE]

\* one pass of the loop of lines 346-349: the pointer move of step k, then
\* the sleep; a move that raises takes move_mouse_to to its handler
ExecuteStep ==
    /\ execution.phase = "moving"
    /\ execution.k <= Len(execution.timestamps)
    /\ \E moved \in BOOLEAN :
          LET t == execution.timestamps[execution.k]
          IN IF moved
             THEN execution' = [execution EXCEPT
                                   !.on_time = @ /\ execution.elapsed = t,
                                   !.elapsed = ElapsedAfterStep(@, t),
                                   !.k = @ + 1]
             ELSE execution' = [execution EXCEPT !.phase = "handler"]
    /\ UNCHANGED <<scraperVars, retry, base_product, html, parsed, movement, selected, store>>

\* the loop is over: current_mouse_position is set, move_mouse_to returns
FinishMovement ==
    /\ execution.phase = "moving"
    /\ execution.k > Len(execution.timestamps)
    /\ execution' = [execution EXCEPT !.phase = "returned"]
    /\ UNCHANGED <<scraperVars, retry, base_product, html, parsed, movement, selected, store>>

\* lines 352-360: the handler logs and moves the pointer to the target
\* directly; what that move raises leaves move_mouse_to
HandleMoveError ==
    /\ execution.phase = "handler"
    /\ \E moved \in BOOLEAN :
          execution' = [execution EXCEPT !.phase = IF moved THEN "returned_direct"
                                                  ELSE "raised"]
    /\ UNCHANGED <<scraperVars, retry, base_product, html, parsed, movement, selected, store>>

ExecNext ==
    \/ ExecuteStep
    \/ FinishMovement
    \/ HandleMoveError

ExecSpec == ExecInit /\ [][ExecNext]_vars

\* ------------------------------- the products table: API and saver
\* Requests working on the products table at the same time: "create" is
\* POST /catalog/products (api/catalog/router.py, create_product), "upsert"
\* is the saver consumer handling one normalized product
\* (saver/consumers/scraper_consumer.py, process_scraper_data).  Each one
\* first selects by (source, external_id) and then writes; the two database
\* calls are separate awaits, and the table has a plain index on the pair
\* (api/catalog/models.py, line 37), so the database refuses no insert.
MaxRequests == 3

Requests == 1..MaxRequests

RequestKinds == {"create", "upsert"}

\* the (source, external_id) pairs of the requests
ProductKeys == {<<"farfetch", "1">>, <<"farfetch", "2">>}

\* the ids of the rows of the table whose pair is key
RowsWith(rows, key) == {r \in 1..Len(rows) : rows[r].key = key}

NoRow == 0

\* scalar_one_or_none() / fetchrow(): the row found, NoRow when there is none
FoundRow(rows, key) ==
    IF RowsWith(rows, key) = {} THEN NoRow
    ELSE CHOOSE r \in RowsWith(rows, key) : \A q \in RowsWith(rows, key) : r <= q

StoreInit ==
    /\ ScraperIdle
    /\ retry = Unused
    /\ base_product = Unused
    /\ html = Unused
    /\ parsed = Unused
    /\ movement = Unused
    /\ execution = Unused
    /\ selected = Unused
    /\ \E rows \in {<<>>, <<[key |-> <<"farfetch", "1">>, updated |-> FALSE]>>},
          kinds \in [Requests -> RequestKinds],
          keys \in [Requests -> ProductKeys] :
          store = [rows |-> rows,
                   requests |-> [p \in Requests |->
                                    [kind |-> kinds[p], key |-> keys[p], pc |-> "select",
                                     found |-> NoRow, status |-> NoStatus]]]

\* the select of a request: router.py lines 88-95 (scalar_one_or_none raises
\* when several rows match, which handle_errors turns into a 500),
\* scraper_consumer.py lines 50-53 (fetchrow returns the first row)
SelectExisting(p) ==
    LET req == store.requests[p]
        matching == RowsWith(store.rows, req.key)
    IN /\ req.pc = "select"
       /\ IF req.kind = "create" /\ Cardinality(matching) > 1
          THEN store' = [store EXCEPT !.requests[p].pc = "done",
                                      !.requests[p].status = 500]
          ELSE store' = [store EXCEPT !.requests[p].pc = "write",
                                      !.requests[p].found = FoundRow(store.rows, req.key)]
       /\ UNCHANGED <<scraperVars, retry, base_product, html, parsed, movement, execution,
                      selected>>

\* the rest of a request: router.py lines 97-113 (409, or add and commit),
\* scraper_consumer.py lines 55-64 (update_product by id, or create_product)
WriteProduct(p) ==
    LET req == store.requests[p]
    IN /\ req.pc = "write"
       /\ IF req.found # NoRow
          THEN IF req.kind = "create"
               THEN store' = [store EXCEPT !.requests[p].pc = "done",
                                           !.requests[p].status = 409]
               ELSE store' = [store EXCEPT !.requests[p].pc = "done",
                                           !.requests[p].status = 200,
                                           !.rows[req.found].updated = TRUE]
          ELSE store' = [store EXCEPT !.requests[p].pc = "done",
                                      !.requests[p].status = 200,
                                      !.rows = Append(@, [key |-> req.key, updated |-> FALSE])]
       /\ UNCHANGED <<scraperVars, retry, base_product, html, parsed, movement, execution,
                      selected>>

StoreNext ==
    \/ \E p \in Requests : SelectExisting(p)
    \/ \E p \in Requests : WriteProduct(p)

StoreSpec == StoreInit /\ [][StoreNext]_vars

\* ------------------------------------------------------------ properties
BatchEnded == pc \in {"returned", "raised"}

\* positions of the URLs whose scrape_product call returned a product
Yielded == {j \in 1..Len(urls) : outcome[j] = "product"}

Collected == {products[k] : k \in 1..Len(products)}

\* get(urls[i]) has raised on its last permitted attempt
GetRaised == pc = "item_done" /\ last.raised # NoError

C3_FailuresIsolated ==
    (BatchEnded /\ http_client /\ err # CancelledError) =>
        \A j \in 1..Len(urls) :
            /\ outcome[j] # "pending"
            /\ (j \in Collected) <=> (outcome[j] = "product")

C3_Witness ==
    /\ pc = "returned"
    /\ Len(urls) = 3
    /\ outcome[1] = "product"
    /\ outcome[2] = "failed"
    /\ outcome[3] = "product"
    /\ products = <<1, 3>>

\* C4: the products are collected in the order of their URLs in the input.
C4_OrderPreserved ==
    \A a \in 1..Len(products) : \A b \in 1..Len(products) :
        a < b => products[a] < products[b]

C4_Witness ==
    /\ pc = "returned"
    /\ Len(products) >= 2
    /\ Len(products) < Len(urls)

\* C5: one get(url) call starts at most max_retries attempts, and it always
\* ends (returns or raises) whatever the attempts do.
C5_RetriesBounded ==
    /\ [](attempts_started <= max_retries)
    /\ [](pc = "get" => <>(pc # "get"))

C5_Witness ==
    /\ GetRaised
    /\ max_retries >= 2
    /\ attempts_started = max_retries
    /\ last.status = 403

\* C6 (as stated): when the last permitted attempt fails, get raises
\* TimeoutError for a load timeout and HTTPError for any other failure, and
\* the error carries the URL.
C6_FinalErrorKind ==
    GetRaised =>
        /\ err.url = urls[i]
        /\ err.type = IF last.raised.type \in {"asyncio.TimeoutError", "playwright.TimeoutError"}
                      THEN "TimeoutError"
                      ELSE "HTTPError"

\* C7 (as stated): when the last permitted attempt fails on a status of 400
\* or above, the error get raises carries that status as status_code.
C7_FinalErrorCarriesStatus ==
    (GetRaised /\ last.status >= 400) => err.status_code = last.status

\* C8 (as stated): every attempt whose target navigation returns 403 runs
\* the alternate-strategy fallback.
C8_FallbackOnEvery403 ==
    last.status = 403 => last.alt # "none"

\* C8 (amended): an attempt whose target navigation returns 403 calls the
\* alternate-strategy fallback exactly when it is not the last permitted
\* attempt; a 403 on the last permitted attempt (every attempt when
\* max_retries = 1) fails the attempt without the fallback.
C8_FallbackOnNonFinal403 ==
    last.status = 403 =>
        /\ (last.alt # "none") <=> (last.n < max_retries - 1)
        /\ (last.alt = "none") <=>
               (last.raised.type = "HTTPError" /\ last.raised.status_code = 403)

C8_Witness ==
    /\ pc = "get"
    /\ max_retries = 3
    /\ last.n = 0
    /\ last.status = 403
    /\ last.alt = "renavigated"

C10_TeardownOnEveryExit ==
    BatchEnded => live = {}

\* C11: within one batch the session is started exactly once: while URLs
\* are processed, and when the batch ends after them, start() has been
\* called once, by the "async with", and never by get().
C11_SessionStartedOnce ==
    /\ starts <= 1
    /\ http_client => starts = 1

C11_Witness ==
    /\ pc = "returned"
    /\ Len(urls) = 3
    /\ starts = 1
    /\ \E j \in 1..Len(urls) : outcome[j] = "failed"
    /\ \E j \in 1..Len(urls) : outcome[j] = "product"

\* C20: a URL that fails validate_url ends its scrape_product call with
\* URLValidationError carrying that URL, and no attempt of get() is made
\* for it.
C20_ValidationFailsFast ==
    (pc = "item_done" /\ urls[i] \notin FarfetchUrls) =>
        /\ err = URLValidationError(urls[i])
        /\ outcome[i] = "failed"
        /\ attempts_started = 0
        /\ last = NoAttempt

C20_Witness ==
    /\ pc = "item_done"
    /\ i = 2
    /\ urls[1] \in FarfetchUrls
    /\ urls[2] \notin FarfetchUrls
    /\ err = URLValidationError(urls[2])
    /\ starts = 1

PricedVariants(variants) ==
    SelectSeq([k \in 1..Len(variants) |-> OfferPrice(variants[k])], TruthyNotNone)

\* C14 (as stated): a price_range read is (min, max) over the prices of all
\* variants whose offer has a price, any price from 0 to 10000 included, and
\* is (None, None) exactly when no variant has a price.
C14_PriceRangeOverPricedVariants ==
    base_product.read =>
        LET priced == PricedVariants(base_product.variants)
        IN /\ (priced = <<>>) <=> (base_product.price_range = <<None, None>>)
           /\ priced # <<>> =>
                 base_product.price_range = <<Num(SeqMin(priced)), Num(SeqMax(priced))>>

ParsedProduct == parsed.called /\ parsed.product # NoProduct

\* C17 (as stated): with a non-empty target_brands, parse_product returns a
\* product only if the returned product's brand is empty or one of
\* target_brands.
C17_ReturnedBrandIsTarget ==
    (ParsedProduct /\ html.target_brands # {}) =>
        (parsed.product.brand = "" \/ parsed.product.brand \in html.target_brands)

\* the ProductGroup block of the markup, if it has one
HasProductGroup == \E k \in 1..Len(html.scripts) : html.scripts[k].type = "ProductGroup"

TheProductGroup ==
    html.scripts[CHOOSE k \in 1..Len(html.scripts) : html.scripts[k].type = "ProductGroup"]

\* a ProductGroup block with name, brand and description all given
WellFormedProductGroup ==
    /\ HasProductGroup
    /\ TheProductGroup.name # ""
    /\ TheProductGroup.brand # Absent
    /\ TheProductGroup.description # ""

\* the size labels of the markup, and where each is discovered first
SizeLabels == Range(html.size_elements) \ {""}

FirstSeen(label) ==
    CHOOSE k \in 1..Len(html.size_elements) :
        /\ html.size_elements[k] = label
        /\ \A l \in 1..(k - 1) : html.size_elements[l] # label

FirstImage ==
    IF \E k \in 1..Len(html.img_srcs) : html.img_srcs[k] # ""
    THEN html.img_srcs[CHOOSE k \in 1..Len(html.img_srcs) :
                          /\ html.img_srcs[k] # ""
                          /\ \A l \in 1..(k - 1) : html.img_srcs[l] = ""]
    ELSE ""

\* C15: for markup with no well-formed ProductGroup block the structured
\* extractor gives no record, and a product that is returned is built from
\* the selector data: one variant per discovered size label, in discovery
\* order, or one default variant when no size was discovered; every variant
\* has price 0 and the first discovered image (or none).
C15_SelectorProductVariants ==
    (parsed.called /\ ~WellFormedProductGroup) =>
        /\ parsed.json_data = "None"
        /\ ParsedProduct =>
            LET vs == parsed.product.variants
            IN /\ \A k \in 1..Len(vs) :
                     /\ OfferPrice(vs[k].price_specification) = Num(0)
                     /\ vs[k].image = FirstImage
               /\ SizeLabels = {} =>
                     /\ Len(vs) = 1
                     /\ vs[1].size = ""
                     /\ vs[1].sku = <<"html", "default">>
               /\ SizeLabels # {} =>
                     /\ Len(vs) = Cardinality(SizeLabels)
                     /\ \A k \in 1..Len(vs) :
                           /\ vs[k].size \in SizeLabels
                           /\ vs[k].sku = <<"html", vs[k].size>>
                     /\ \A k, l \in 1..Len(vs) :
                           k < l => FirstSeen(vs[k].size) < FirstSeen(vs[l].size)

C15_Witness ==
    /\ ParsedProduct
    /\ html.scripts = <<InvalidScript>>
    /\ html.size_elements = <<"M", "M">>
    /\ html.img_srcs = <<"b.jpg", "b.jpg", "a.jpg">>
    /\ Len(parsed.product.variants) = 1
    /\ parsed.product.variants[1].size = "M"
    /\ parsed.product.variants[1].image = "b.jpg"

\* an entry of hasVariant with a price specification whose price is a
\* number from 0 to 10000
HasSanePrice(entry) ==
    /\ entry.priceSpecification # <<>>
    /\ entry.priceSpecification[1].kind = "num"
    /\ entry.priceSpecification[1].v \in 0..10000

\* C16 (as stated): every variant of a product built from a structured
\* record has a numeric price from 0 to 10000; the entries without a price
\* specification, without a price, or with a non-numeric or out-of-range
\* price are skipped.
C16_StructuredVariantsHaveSanePrice ==
    (ParsedProduct /\ parsed.json_data = "ProductGroup") =>
        LET vs == parsed.product.variants
            hv == TheProductGroup.hasVariant
        IN /\ \A k \in 1..Len(vs) :
                 /\ OfferPrice(vs[k].price_specification).kind = "num"
                 /\ OfferPrice(vs[k].price_specification).v \in 0..10000
           /\ Len(vs) = Cardinality({k \in 1..Len(hv) : HasSanePrice(hv[k])})

\* C18 (as stated): when the ProductGroup block has an empty name, brand or
\* description, the product is still assembled from the structured record
\* (its images and variants), and only the empty field is filled from the
\* selector record.
C18_EmptyFieldFilledFromSelectors ==
    (/\ parsed.called
     /\ HasProductGroup
     /\ html.target_brands = {}
     /\ \/ clean_text(TheProductGroup.name) = ""
        \/ BrandName(TheProductGroup) = ""
        \/ clean_text(TheProductGroup.description) = "") =>
        LET pg == TheProductGroup
            info == parsed.additional_info
        IN /\ ParsedProduct
           /\ parsed.product.images = pg.image
           /\ \A k \in 1..Len(parsed.product.variants) :
                 parsed.product.variants[k].sku = <<"SKU">>
           /\ parsed.product.name =
                 (IF clean_text(pg.name) = "" THEN info.title ELSE pg.name)
           /\ parsed.product.brand =
                 (IF BrandName(pg) = "" THEN info.brand ELSE pg.brand.name)
           /\ parsed.product.description =
                 (IF clean_text(pg.description) = "" THEN info.description ELSE pg.description)

\* C12: the timestamps of the steps of a plan never decrease, and a
\* returned plan has between 20 and 121 steps, whichever step variation,
\* overshoot, pauses and hover are drawn.
C12_TimestampsOrderedCountBounded ==
    /\ movement.ordered
    /\ movement.count <= 121
    /\ movement.phase = "returned" => movement.count >= 20

C12_Witness ==
    /\ movement.phase = "returned"
    /\ movement.count = 121
    /\ movement.hover
    /\ movement.pauses = 1
    /\ movement.overshoot # NoOvershoot

\* C13 (as stated): the first step of a plan is the start point and the
\* last step before a trailing hover is the end point, each up to the
\* jitter added to it, whichever overshoot, pauses and hover are drawn.
C13_FirstIsStartLastIsEnd ==
    movement.phase = "returned" =>
        LET den == (movement.step_count - 1) * (movement.step_count - 1)
        IN /\ movement.first = [kind |-> "base", x |-> movement.start[1] * den,
                                y |-> movement.start[2] * den]
           /\ movement.last = [kind |-> "base", x |-> movement.end[1] * den,
                               y |-> movement.end[2] * den]

\* C21: an error raised by a pointer move or a scroll of the behaviour
\* simulation does not abort the attempt: the simulation returns, the attempt
\* goes on to the settle delay and to page.content(), and when nothing after
\* the simulation raises, get() returns the content.
C21_SimulationErrorsContained ==
    last.sim_error =>
        /\ last.captured
        /\ last.raised = NoError => last.returned = "content"

C21_Witness ==
    /\ pc = "parse"
    /\ last.sim_error
    /\ last.captured
    /\ last.returned = "content"

C25_RenavigatedPageIsUsed ==
    last.alt = "renavigated" =>
        /\ attempt = last.n
        /\ last.captured

\* C26: get(url) returns content only from an attempt whose target
\* navigation returned a response with a status below 400.
C26_ContentOnlyFromSuccessStatus ==
    last.returned = "content" =>
        /\ last.status \in Statuses
        /\ last.status < 400
        /\ last.raised = NoError
        /\ last.captured

C26_Witness ==
    /\ pc = "parse"
    /\ last.returned = "content"
    /\ last.status = 200
    /\ last.n = 2

\* C27: get(url) returns None only when max_retries is 0, without making an
\* attempt; with max_retries >= 1 a get(url) that made an attempt and ended
\* has returned content or raised TimeoutError or HTTPError.
C27_NoneOnlyWithoutAttempts ==
    /\ last.returned = "None" => (max_retries = 0 /\ attempts_started = 0)
    /\ (pc = "item_done" /\ last.n >= 0) =>
          \/ last.returned = "content"
          \/ /\ last.returned = "no"
             /\ last.raised # NoError
             /\ err.type \in {"TimeoutError", "HTTPError"}

C27_Witness ==
    /\ pc = "item_done"
    /\ max_retries = 3
    /\ attempts_started = 3
    /\ last.status = 403
    /\ last.returned = "no"
    /\ err.type = "HTTPError"
    /\ outcome[i] = "failed"

\* C28: the page an attempt of get() opened is closed when the attempt is
\* over (before the next attempt, the return or the raise).
C28_PageClosedAfterAttempt ==
    last.page # "open"

\* C30: scrape_product called with a URL of the site while no batch is
\* running raises RuntimeError and launches no browser, before the first
\* batch and after a batch has ended.
C30_NoSessionRaisesRuntimeError ==
    (direct.called /\ validate_url(direct.url)) =>
        /\ direct.raised = RuntimeError
        /\ ~direct.launched
\* C22: every pointer move of a plan is issued when the time elapsed since
\* the movement began equals the timestamp of its step, and a plan executed
\* to its end has taken its last timestamp.
C22_StepsIssuedAtTheirTimestamps ==
    /\ execution.on_time
    /\ execution.phase = "returned" =>
          execution.elapsed = execution.timestamps[Len(execution.timestamps)]
\* what selector k of the cascade of the extracted field yields: the text,
\* or the non-empty values of its elements
SelectorContent(k) ==
    IF selected.field \in TextFields
    THEN selected.cascade[k]
    ELSE LET found == selected.cascade[k]
         IN SelectSeq(found, LAMBDA v : v # "")

Yields(k) ==
    IF selected.field \in TextFields
    THEN selected.cascade[k] # ""
    ELSE \E m \in 1..Len(selected.cascade[k]) : selected.cascade[k][m] # ""

\* the values of the value list v are distinct
Distinct(v) == \A a \in 1..Len(v) : \A b \in 1..Len(v) : a # b => v[a] # v[b]

\* the position of the first occurrence of x in the sequence q
FirstAt(q, x) == CHOOSE k \in 1..Len(q) : q[k] = x /\ \A m \in 1..(k - 1) : q[m] # x

C29_NoTwoRowsWithSamePair ==
    \A a \in 1..Len(store.rows) : \A b \in 1..Len(store.rows) :
        a # b => store.rows[a].key # store.rows[b].key
====
